---- MODULE Spec2Model ----
(***************************************************************************)
(* The two ESLint rules of packages/eslint-plugin-qwik/src/jsxKey.ts,      *)
(* jsxKey and useMethodUsage, run over a parsed syntax tree by a           *)
(* depth-first traversal that calls the handlers each rule registers.      *)
(*                                                                         *)
(* A syntax node is a record; a node of the tree is named by its path from *)
(* the Program root (the sequence of child indices), which is the node's   *)
(* identity wherever the code passes a node object around.                 *)
(***************************************************************************)
EXTENDS Integers, Sequences, FiniteSets, TLC

VARIABLES
  rule,                     \* the rule module whose create() is run
  comments,                 \* context.sourceCode.getAllComments()
  ctxOptions,               \* context.options[0]
  ast,                      \* the Program node handed to the traversal
  phase,                    \* "start" | "traverse" | "done"
  listeners,                \* the selectors of the object create() returned
  options,                  \* jsxKey: the merged options record
  isWithinChildrenToArray,  \* jsxKey: the exempt flag
  seen,                     \* jsxKey: the WeakSet of nodes already reported
  reports,                  \* the context.report() calls so far, in order
  queue,                    \* the traversal's events: enter and exit of each node
  pc,                       \* index of the next traversal event
  walk,                     \* useMethodUsage: `parent` of the running handler
  previous,                 \* the last finished run: its options and its reports
  leftFlag,                 \* the exempt flag an abandoned run left standing
  props,                    \* MyCounter: the props the component is rendered with
  state,                    \* MyCounter: the store, {count}
  screen,                   \* MyCounter: the text of the <span>
  clicks,                   \* MyCounter: the buttons clicked so far, as dir
  fnBody,                   \* getReturnStatements: the block it is called with
  collected                 \* getReturnStatements: the array it returned

vars == <<rule, comments, ctxOptions, ast, phase, listeners, options,
          isWithinChildrenToArray, seen, reports, queue, pc, walk,
          previous, leftFlag, props, state, screen, clicks,
          fnBody, collected>>

-----------------------------------------------------------------------------
(* Bounds of the inputs *)

\* JSX subtrees (elements and shorthand fragments) have at most this many nodes
MaxJsxNodes == 3
\* JSX subtrees built of elements only have at most this many nodes
MaxElementNodes == 5
\* MyCounter's buttons are clicked at most this many times
MaxClicks == 4
\* The blocks handed to getReturnStatements have at most this many statements
MaxStatements == 2

-----------------------------------------------------------------------------
(* Syntax nodes *)

Undefined == [js |-> "undefined"]

\* An identifier's name, where the code looks into it, is its characters.
NoName == <<>>
NameComponent == <<"c", "o", "m", "p", "o", "n", "e", "n", "t", "$">>
NameUseSignal == <<"u", "s", "e", "S", "i", "g", "n", "a", "l">>
NameUseCounter == <<"u", "s", "e", "C", "o", "u", "n", "t", "e", "r">>
NameUser == <<"u", "s", "e", "r">>
NameCounter == <<"C", "o", "u", "n", "t", "e", "r">>
NameF == <<"f">>

\* The fields of a call's callee that the selectors read: callee.type,
\* callee.name, callee.object.name, callee.object.object.name,
\* callee.object.property.name, callee.property.name.
NoCallee == [type |-> "", name |-> NoName, objectName |-> "", objectObjectName |-> "",
             objectPropertyName |-> "", propertyName |-> ""]

\* callee `f`
CalleeIdentifier(n) == [NoCallee EXCEPT !.type = "Identifier", !.name = n]
\* callee `o.p`
CalleeMember(o, p) ==
  [NoCallee EXCEPT !.type = "MemberExpression", !.objectName = o, !.propertyName = p]
\* callee `oo.op.p`
CalleeMember2(oo, op, p) ==
  [NoCallee EXCEPT !.type = "MemberExpression", !.objectObjectName = oo,
                   !.objectPropertyName = op, !.propertyName = p]

JSXIdentifier(n) == [type |-> "JSXIdentifier", name |-> n]
JSXAttribute(n) == [type |-> "JSXAttribute", name |-> JSXIdentifier(n)]
JSXSpreadAttribute == [type |-> "JSXSpreadAttribute", name |-> Undefined]

\* A node: its type, the children the traversal visits (in visiting order),
\* and the fields the handlers read.
Node(t, k) == [type |-> t, kids |-> k, callee |-> NoCallee, attributes |-> <<>>, id |-> NoName]

Identifier(n) == [Node("Identifier", <<>>) EXCEPT !.id = n]
Null == Node("null", <<>>)
JSXElement(attrs, children) == [Node("JSXElement", children) EXCEPT !.attributes = attrs]
JSXFragment(children) == Node("JSXFragment", children)
JSXExpressionContainer(e) == Node("JSXExpressionContainer", <<e>>)
ArrayExpression(elements) == Node("ArrayExpression", elements)
CallExpression(c, arguments) == [Node("CallExpression", arguments) EXCEPT !.callee = c]
ArrowFunctionExpression(body) == Node("ArrowFunctionExpression", <<body>>)
FunctionExpression(body) == Node("FunctionExpression", <<body>>)
ConditionalExpression(test, consequent, alternate) ==
  Node("ConditionalExpression", <<test, consequent, alternate>>)
LogicalExpression(left, right) == Node("LogicalExpression", <<left, right>>)
BlockStatement(body) == Node("BlockStatement", body)
ReturnStatement(argument) ==
  Node("ReturnStatement", IF argument = Null THEN <<>> ELSE <<argument>>)
IfStatement(test, consequent, alternate) ==
  Node("IfStatement", IF alternate = Null THEN <<test, consequent>>
                      ELSE <<test, consequent, alternate>>)
ExpressionStatement(e) == Node("ExpressionStatement", <<e>>)
VariableDeclarator(n, init) == [Node("VariableDeclarator", <<init>>) EXCEPT !.id = n]
VariableDeclaration(n, init) == Node("VariableDeclaration", <<VariableDeclarator(n, init)>>)
FunctionDeclaration(n, body) == [Node("FunctionDeclaration", <<body>>) EXCEPT !.id = n]
Program(body) == Node("Program", body)

\* node.body of a function, node.arguments[i], node.consequent, ...
Body(fn) == fn.kids[1]
Kid(n, i) == IF i \in 1..Len(n.kids) THEN n.kids[i] ELSE Null

RECURSIVE NodeAt(_, _)
NodeAt(n, p) == IF p = <<>> THEN n ELSE NodeAt(n.kids[Head(p)], Tail(p))

Front(p) == SubSeq(p, 1, Len(p) - 1)

-----------------------------------------------------------------------------
(* The inputs: syntax trees, comments, options *)

ElementAttributes == {<<>>, <<JSXAttribute("key")>>}

\* JSX subtrees of exactly n nodes; shorthand fragments allowed when f
RECURSIVE JsxOfSize(_, _), JsxForests(_, _)
JsxOfSize(n, f) ==
  IF n < 1 THEN {}
  ELSE {JSXElement(a, ks) : a \in ElementAttributes, ks \in JsxForests(n - 1, f)}
       \cup (IF f THEN {JSXFragment(ks) : ks \in JsxForests(n - 1, f)} ELSE {})
JsxForests(m, f) ==
  IF m = 0 THEN {<<>>}
  ELSE UNION {{<<t>> \o rest : t \in JsxOfSize(k, f), rest \in JsxForests(m - k, f)}
                : k \in 1..m}

JsxTrees ==
  UNION {JsxOfSize(n, TRUE) : n \in 1..MaxJsxNodes}
  \cup UNION {JsxOfSize(n, FALSE) : n \in 1..MaxElementNodes}

JsxLeaves == JsxOfSize(1, TRUE)
X == Identifier(<<"x">>)
Li == JSXElement(<<>>, <<>>)
LiKey == JSXElement(<<JSXAttribute("key")>>, <<>>)
Frag == JSXFragment(<<>>)

\* Function bodies: the statements of a block
Returns == {ReturnStatement(a) : a \in JsxLeaves \cup {X, Null}}
JsxReturns == {ReturnStatement(a) : a \in {Li, Frag}}
IfStatements ==
  {IfStatement(X, c, a) :
     c \in JsxReturns \cup {BlockStatement(<<r>>) : r \in JsxReturns},
     a \in {Null} \cup JsxReturns \cup {IfStatement(X, r, Null) : r \in JsxReturns}}
NestedFunctionStatements ==
  {VariableDeclaration(<<"h">>, FunctionExpression(BlockStatement(<<ReturnStatement(Li)>>))),
   ExpressionStatement(CallExpression(CalleeIdentifier(NameF),
     <<ArrowFunctionExpression(BlockStatement(<<ReturnStatement(Li)>>))>>))}
Blocks ==
  {BlockStatement(<<st>>) : st \in Returns \cup IfStatements \cup NestedFunctionStatements}
  \cup {BlockStatement(<<IfStatement(X, r1, Null), r2>>) : r1 \in JsxReturns, r2 \in JsxReturns}

\* Callbacks
ExpressionBodies ==
  UNION {JsxOfSize(n, TRUE) : n \in 1..2}
  \cup {ConditionalExpression(X, c, a) : c \in JsxLeaves \cup {X}, a \in JsxLeaves \cup {X}}
  \cup {LogicalExpression(X, r) : r \in JsxLeaves \cup {X}}
  \cup {X}
Callbacks ==
  {ArrowFunctionExpression(b) : b \in ExpressionBodies \cup Blocks}
  \cup {FunctionExpression(b) : b \in Blocks}

CalleeMap == CalleeMember("items", "map")
CalleeFrom == CalleeMember("Array", "from")
CalleeChildrenToArray == CalleeMember("Children", "toArray")
CalleeFragmentChildrenToArray == CalleeMember2("Fragment", "Children", "toArray")
ExemptCallees == {CalleeChildrenToArray, CalleeFragmentChildrenToArray}
OtherToArrayCallees ==
  {CalleeMember2("React", "Children", "toArray"), CalleeMember("items", "toArray")}

IterationCalls ==
  {CallExpression(CalleeMap, <<cb>>) : cb \in Callbacks}
  \cup {CallExpression(CalleeFrom, <<X, cb>>) : cb \in Callbacks}
  \cup {CallExpression(CalleeFrom, <<ArrowFunctionExpression(Li), cb>>) :
           cb \in {X, ArrowFunctionExpression(X)}}
  \cup {CallExpression(c, a) : c \in {CalleeMap, CalleeFrom},
                               a \in {<<>>, <<X>>, <<ArrowFunctionExpression(Li)>>}}

ArrayLiterals ==
  {ArrayExpression(es) :
     es \in {<<>>} \cup {<<e>> : e \in JsxLeaves \cup {Null}}
             \cup {<<e1, e2>> : e1 \in JsxLeaves \cup {Null}, e2 \in JsxLeaves \cup {Null}}}

\* Expressions that draw a diagnostic from some handler when they stand
\* outside an exempt call (or would, were the iteration checks to reach them)
Payloads ==
  {JSXElement(<<>>, <<JSXElement(<<>>, <<Li>>)>>),
   ArrayExpression(<<Frag>>),
   ArrayExpression(<<Li, LiKey>>),
   CallExpression(CalleeMap, <<ArrowFunctionExpression(Li)>>),
   CallExpression(CalleeFrom, <<X, ArrowFunctionExpression(Frag)>>)}

ToArrayCalls ==
  {CallExpression(c, <<e>>) : c \in ExemptCallees \cup OtherToArrayCallees, e \in Payloads}
  \cup {CallExpression(c1, <<CallExpression(c2, <<X>>), e>>) :
           c1 \in ExemptCallees, c2 \in ExemptCallees, e \in Payloads}
  \cup {CallExpression(CalleeChildrenToArray, <<e, CallExpression(CalleeChildrenToArray, <<X>>)>>) :
           e \in Payloads}
  \cup {CallExpression(CalleeChildrenToArray,
           <<ArrayExpression(<<CallExpression(CalleeChildrenToArray, <<X>>), e>>)>>) :
           e \in Payloads}
  \cup {ArrayExpression(<<CallExpression(c, <<X>>), e>>) : c \in ExemptCallees, e \in Payloads}

JsxWithIteration ==
  {JSXElement(a, <<JSXExpressionContainer(CallExpression(CalleeMap, <<ArrowFunctionExpression(b)>>))>>) :
     a \in ElementAttributes, b \in JsxLeaves}

UseSignalCall == CallExpression(CalleeIdentifier(NameUseSignal), <<>>)
HookCallBlocks ==
  {BlockStatement(<<VariableDeclaration(<<"c">>, UseSignalCall)>>),
   BlockStatement(<<ExpressionStatement(UseSignalCall)>>),
   BlockStatement(<<ReturnStatement(UseSignalCall)>>)}
HookCallBodies ==
  {UseSignalCall, ConditionalExpression(X, UseSignalCall, X)} \cup HookCallBlocks
HookFunctions ==
  {ArrowFunctionExpression(b) : b \in HookCallBodies}
  \cup {FunctionExpression(b) : b \in HookCallBlocks}
HookStatements ==
  {VariableDeclaration(n, CallExpression(CalleeIdentifier(c), <<fn>>)) :
     n \in {NameCounter}, c \in {NameComponent, NameF}, fn \in HookFunctions}
  \cup {VariableDeclaration(n, fn) :
           n \in {NameCounter, NameUseCounter, NameUser}, fn \in HookFunctions}
  \cup {FunctionDeclaration(n, BlockStatement(<<ReturnStatement(UseSignalCall)>>)) :
           n \in {NameCounter, NameUseCounter}}
  \cup {ExpressionStatement(e) : e \in {UseSignalCall, ArrayExpression(<<UseSignalCall>>)}}

Programs ==
  {Program(<<ExpressionStatement(e)>>) :
     e \in JsxTrees \cup ArrayLiterals \cup IterationCalls \cup ToArrayCalls
            \cup JsxWithIteration}
  \cup {Program(<<st>>) : st \in HookStatements}

\* The trees linted more than once: each handler is called on one of them
TwiceExpressions ==
  {ArrayExpression(<<CallExpression(CalleeChildrenToArray, <<X>>),
                     JSXElement(<<>>, <<JSXElement(<<>>, <<Li>>)>>)>>),
   ArrayExpression(<<Frag, CallExpression(CalleeChildrenToArray, <<ArrayExpression(<<Frag>>)>>)>>),
   ArrayExpression(<<Li, LiKey>>),
   JSXElement(<<>>, <<JSXElement(<<JSXSpreadAttribute, JSXAttribute("key")>>, <<Li, LiKey>>)>>),
   CallExpression(CalleeMap, <<ArrowFunctionExpression(Li)>>),
   CallExpression(CalleeFrom, <<X, ArrowFunctionExpression(Frag)>>)}
ProgramsTwice == {Program(<<ExpressionStatement(e)>>) : e \in TwiceExpressions}

\* A comment's value is its words; String.prototype.includes looks for the
\* needle as a contiguous run of them.
Includes(value, needle) ==
  \E i \in 1..(Len(value) - Len(needle) + 1) :
     SubSeq(value, i, i + Len(needle) - 1) = needle
Comment(v) == [type |-> "Block", value |-> v]
CommentLists ==
  {<<Comment(<<"eslint-disable">>)>>,
   <<Comment(<<"eslint-disable">>), Comment(<<"*", "@jsxImportSource", "react">>)>>}

OptionNames == {"checkFragmentShorthand", "checkKeyMustBeforeSpread", "warnOnDuplicates"}
\* context.options[0]: absent, or an object giving some of the options
OptionObjects ==
  {Undefined}
  \cup [OptionNames -> BOOLEAN]
  \cup {[n \in {k} |-> TRUE] : k \in OptionNames}

-----------------------------------------------------------------------------
(* The traversal: depth-first, a node's enter event, its children, its exit *)

RECURSIVE Events(_, _), KidEvents(_, _, _)
Events(n, p) ==
  <<[kind |-> "enter", node |-> p]>> \o KidEvents(n, p, 1) \o <<[kind |-> "exit", node |-> p]>>
KidEvents(n, p, i) ==
  IF i > Len(n.kids) THEN <<>>
  ELSE (IF n.kids[i].type = "null" THEN <<>> ELSE Events(n.kids[i], Append(p, i)))
       \o KidEvents(n, p, i + 1)

-----------------------------------------------------------------------------
(* jsxKey: helpers *)

Report(p, m) == [node |-> p, messageId |-> m]

\* A text is the sequence of its pieces: runs of characters, and the grave
\* accent, which stands as a piece of its own
GraveAccent == "U+0060"

\* Mutant: under checkFragmentShorthand the array messages are those of
\* the iterator
messagesByOption ==
  LET it == "Missing \"key\" prop for element in iterator."
      perf == " The key prop allows for improved rendering performance."
      frag == " Shorthand fragment syntax does not support providing keys. Use <Fragment> instead"
      arr == IF options.checkFragmentShorthand THEN it
             ELSE "Missing \"key\" prop for element in array."
  IN [missingIterKey |-> <<it>>,
      missingIterKeyUsePrag |-> <<it \o perf \o frag>>,
      missingArrayKey |-> <<arr \o perf>>,
      missingArrayKeyUsePrag |-> <<arr \o perf \o frag>>,
      nonUniqueKeys |-> <<GraveAccent, "key", GraveAccent, " prop must be unique">>]

\* meta.messages: the text the host shows for each messageId
messages ==
  [missingIterKey |-> <<"Missing \"key\" prop for element in iterator.">>,
   missingIterKeyUsePrag |->
     <<"Missing \"key\" prop for element in iterator. The key prop allows for improved rendering performance. Shorthand fragment syntax does not support providing keys. Use <Fragment> instead">>,
   missingArrayKey |->
     <<"Missing \"key\" prop for element in array. The key prop allows for improved rendering performance.">>,
   missingArrayKeyUsePrag |->
     <<"Missing \"key\" prop for element in array. The key prop allows for improved rendering performance. Shorthand fragment syntax does not support providing keys. Use <Fragment> instead">>,
   nonUniqueKeys |-> <<GraveAccent, "key", GraveAccent, " prop must be unique">>]

isFunctionLikeExpression(node) ==
  node.type = "FunctionExpression" \/ node.type = "ArrowFunctionExpression"

defaultOptions ==
  [checkFragmentShorthand |-> FALSE, checkKeyMustBeforeSpread |-> FALSE,
   warnOnDuplicates |-> FALSE]

\* Object.assign({}, defaultOptions, context.options[0])
ObjectAssign(defaults, given) ==
  IF given = Undefined THEN defaults
  ELSE [k \in DOMAIN defaults |-> IF k \in DOMAIN given THEN given[k] ELSE defaults[k]]

\* Mutant: only the file's first comment is looked at
modifyJsxSourceFirstCommentOnly(cs) ==
  Len(cs) > 0 /\ Includes(cs[1].value, <<"@jsxImportSource">>)

\* comments.some((c) => c.value.includes('@jsxImportSource'))
modifyJsxSource(cs) == \E i \in 1..Len(cs) : Includes(cs[i].value, <<"@jsxImportSource">>)

\* jsxAstUtils.propName / jsxAstUtils.hasProp
propName(attribute) == attribute.name.name
hasProp(attributes, prop) ==
  \E i \in 1..Len(attributes) :
     attributes[i].type = "JSXAttribute" /\ propName(attributes[i]) = prop

\* a === s for a string s: a syntax node is never equal to a string
IsString(v) == "js" \in DOMAIN v /\ v.js = "string"
StrictEqualsString(v, s) == IsString(v) /\ v.value = s

\* Mutant: the key attribute is not looked for
checkIteratorElementIgnoresKey(node, p, checkFragmentShorthand) ==
  IF node.type = "JSXElement"
  THEN <<Report(p, "missingIterKey")>>
  ELSE IF checkFragmentShorthand /\ node.type = "JSXFragment"
       THEN <<Report(p, "missingIterKeyUsePrag")>>
       ELSE <<>>

checkIteratorElement(node, p, checkFragmentShorthand) ==
  IF node.type = "JSXElement" /\ ~hasProp(node.attributes, "key")
  THEN <<Report(p, "missingIterKey")>>
  ELSE IF checkFragmentShorthand /\ node.type = "JSXFragment"
       THEN <<Report(p, "missingIterKeyUsePrag")>>
       ELSE <<>>

\* The return statements (their paths) pushed onto returnStatements
RECURSIVE getReturnStatements(_, _, _), forEachItem(_, _, _, _)
getReturnStatements(node, p, returnStatements) ==
  IF node.type = "IfStatement"
  THEN LET r1 == getReturnStatements(node.kids[2], Append(p, 2), returnStatements)
       IN IF Len(node.kids) >= 3
          THEN getReturnStatements(node.kids[3], Append(p, 3), r1)
          ELSE r1
  ELSE IF node.type = "BlockStatement"
       THEN forEachItem(node, p, 1, returnStatements)
       ELSE returnStatements
forEachItem(node, p, i, returnStatements) ==
  IF i > Len(node.kids) THEN returnStatements
  ELSE LET item == node.kids[i]
           r1 == IF item.type = "IfStatement"
                 THEN getReturnStatements(item, Append(p, i), returnStatements)
                 ELSE returnStatements
           r2 == IF item.type = "ReturnStatement" THEN Append(r1, Append(p, i)) ELSE r1
       IN forEachItem(node, p, i + 1, r2)

\* hasFoundSpread && propName(attribute) === 'key', for some attribute
isKeyAfterSpread(attributes) ==
  \E i \in 1..Len(attributes) :
     /\ attributes[i].type = "JSXAttribute"
     /\ \E j \in 1..(i - 1) : attributes[j].type = "JSXSpreadAttribute"
     /\ propName(attributes[i]) = "key"

RECURSIVE checkReturns(_, _, _, _)
checkReturns(fn, rets, i, checkFragmentShorthand) ==
  IF i > Len(rets) THEN <<>>
  ELSE LET ret == NodeAt(fn, rets[i])
       IN (IF Len(ret.kids) > 0
           THEN checkIteratorElement(ret.kids[1], Append(rets[i], 1), checkFragmentShorthand)
           ELSE <<>>)
          \o checkReturns(fn, rets, i + 1, checkFragmentShorthand)

\* Paths here are relative to node, the function handed in
checkFunctionsBlockStatement(node, checkFragmentShorthand) ==
  IF isFunctionLikeExpression(node)
  THEN IF node.type = "BlockStatement"
       THEN checkReturns(node, getReturnStatements(node, <<>>, <<>>), 1, checkFragmentShorthand)
       ELSE <<>>
  ELSE <<>>

shouldCheckNode(n) == n # Null /\ (n.type = "JSXElement" \/ n.type = "JSXFragment")

checkArrowFunctionWithJSX(node, checkFragmentShorthand) ==
  LET isArrFn == node.type = "ArrowFunctionExpression"
  IN (IF isArrFn /\ shouldCheckNode(Body(node))
      THEN checkIteratorElement(node, <<>>, checkFragmentShorthand)
      ELSE <<>>)
     \o (IF node.type = "ConditionalExpression"
         THEN (IF shouldCheckNode(Kid(node, 2))
               THEN checkIteratorElement(Kid(node, 2), <<2>>, checkFragmentShorthand)
               ELSE <<>>)
              \o (IF shouldCheckNode(Kid(node, 3))
                  THEN checkIteratorElement(Kid(node, 3), <<3>>, checkFragmentShorthand)
                  ELSE <<>>)
         ELSE IF node.type = "LogicalExpression" /\ shouldCheckNode(Kid(node, 2))
              THEN checkIteratorElement(Kid(node, 2), <<2>>, checkFragmentShorthand)
              ELSE <<>>)

\* reports whose paths are relative to prefix, made paths of the tree
At(prefix, rs) == [i \in 1..Len(rs) |-> [rs[i] EXCEPT !.node = prefix \o @]]

-----------------------------------------------------------------------------
(* jsxKey: selectors and handlers *)

childrenToArraySelector(node) ==
  /\ node.type = "CallExpression"
  /\ \/ /\ node.callee.objectObjectName = "Fragment"
        /\ node.callee.objectPropertyName = "Children"
        /\ node.callee.propertyName = "toArray"
     \/ /\ node.callee.objectName = "Children"
        /\ node.callee.propertyName = "toArray"

mapSelector(node) ==
  /\ node.type \in {"CallExpression", "OptionalCallExpression"}
  /\ node.callee.type \in {"MemberExpression", "OptionalMemberExpression"}
  /\ node.callee.propertyName = "map"

fromSelector(node) ==
  /\ node.type = "CallExpression"
  /\ node.callee.type = "MemberExpression"
  /\ node.callee.propertyName = "from"

\* Mutant: the elements matched are those not nested in an element
outermostElementSelector(node, parent) ==
  node.type = "JSXElement" /\ parent.type # "JSXElement"

\* Mutant: the selector JSXElement, matching every element
anyElementSelector(node, parent) == node.type = "JSXElement"

nestedElementSelector(node, parent) ==
  node.type = "JSXElement" /\ parent.type = "JSXElement"

IsJSXElementNode(x) == x # Null /\ x.type = "JSXElement"
IsKeyNamed(x) == x.type # "" /\ StrictEqualsString(x.name, "key")
LongGroup(v) == Len(v) > 1

RECURSIVE Flatten(_), reportEach(_, _, _)
Flatten(groups) == IF groups = <<>> THEN <<>> ELSE Head(groups) \o Flatten(Tail(groups))
reportEach(ns, seenSet, out) ==
  IF ns = <<>> THEN [reports |-> out, seen |-> seenSet]
  ELSE IF Head(ns) \in seenSet
       THEN reportEach(Tail(ns), seenSet, out)
       ELSE reportEach(Tail(ns), seenSet \cup {Head(ns)},
                       Append(out, Report(Head(ns), "nonUniqueKeys")))

\* Object.values(map).filter(v => v.length > 1).forEach(v => v.forEach(...))
reportNonUniqueKeys(map, seenSet) ==
  reportEach(Flatten(SelectSeq(map, LongGroup)), seenSet, <<>>)

\* Mutant: the elements of the array without a key are reported
ArrayExpressionHandlerChecksKeys(node, within, warnOnDuplicates, seenSet) ==
  IF within THEN [reports |-> <<>>, seen |-> seenSet]
  ELSE LET at == SelectSeq([i \in 1..Len(node.kids) |-> i],
                           LAMBDA i : /\ IsJSXElementNode(node.kids[i])
                                      /\ ~hasProp(node.kids[i].attributes, "key"))
       IN [reports |-> [j \in 1..Len(at) |->
                          Report(Append(queue[pc].node, at[j]), "missingArrayKey")],
           seen |-> seenSet]

\* Each handler gives the reports it makes and the seen-set it leaves
ArrayExpressionHandler(node, within, warnOnDuplicates, seenSet) ==
  IF within THEN [reports |-> <<>>, seen |-> seenSet]
  ELSE LET jsx == SelectSeq(node.kids, IsJSXElementNode)
       IN IF Len(jsx) = 0 THEN [reports |-> <<>>, seen |-> seenSet]
          ELSE LET map == <<>>
               IN IF warnOnDuplicates THEN reportNonUniqueKeys(map, seenSet)
                  ELSE [reports |-> <<>>, seen |-> seenSet]

RECURSIVE missingArrayKeys(_, _, _)
missingArrayKeys(node, p, i) ==
  IF i > Len(node.kids) THEN <<>>
  ELSE (IF IsJSXElementNode(node.kids[i])
        THEN LET attrs == node.attributes
                 keys == SelectSeq(attrs, IsKeyNamed)
             IN IF Len(keys) = 0 THEN <<Report(Append(p, i), "missingArrayKey")>> ELSE <<>>
        ELSE <<>>)
       \o missingArrayKeys(node, p, i + 1)

\* Mutant: the element children are gone through twice
NestedElementHandlerScansTwice(node, p, within, warnOnDuplicates, seenSet) ==
  IF within THEN [reports |-> <<>>, seen |-> seenSet]
  ELSE LET jsx == SelectSeq(node.kids, IsJSXElementNode)
       IN IF Len(jsx) = 0 THEN [reports |-> <<>>, seen |-> seenSet]
          ELSE [reports |-> missingArrayKeys(node, p, 1) \o missingArrayKeys(node, p, 1),
                seen |-> seenSet]

\* Mutant: the grouping map holds one group, the element children
NestedElementHandlerGroupsChildren(node, p, within, warnOnDuplicates, seenSet) ==
  IF within THEN [reports |-> <<>>, seen |-> seenSet]
  ELSE LET jsx == SelectSeq(node.kids, IsJSXElementNode)
       IN IF Len(jsx) = 0 THEN [reports |-> <<>>, seen |-> seenSet]
          ELSE LET at == SelectSeq([i \in 1..Len(node.kids) |-> i],
                                   LAMBDA i : IsJSXElementNode(node.kids[i]))
                   map == <<[j \in 1..Len(at) |-> Append(p, at[j])]>>
                   missing == missingArrayKeys(node, p, 1)
                   dup == IF warnOnDuplicates THEN reportNonUniqueKeys(map, seenSet)
                          ELSE [reports |-> <<>>, seen |-> seenSet]
               IN [reports |-> missing \o dup.reports, seen |-> dup.seen]

\* Mutant: under checkKeyMustBeforeSpread an element whose key follows a
\* spread is reported
NestedElementHandlerChecksSpread(node, p, within, warnOnDuplicates, seenSet) ==
  IF within THEN [reports |-> <<>>, seen |-> seenSet]
  ELSE LET jsx == SelectSeq(node.kids, IsJSXElementNode)
       IN IF Len(jsx) = 0 THEN [reports |-> <<>>, seen |-> seenSet]
          ELSE [reports |-> missingArrayKeys(node, p, 1)
                            \o (IF /\ options.checkKeyMustBeforeSpread
                                    /\ isKeyAfterSpread(node.attributes)
                                 THEN <<Report(p, "keyBeforeSpread")>>
                                 ELSE <<>>),
                seen |-> seenSet]

NestedElementHandler(node, p, within, warnOnDuplicates, seenSet) ==
  IF within THEN [reports |-> <<>>, seen |-> seenSet]
  ELSE LET jsx == SelectSeq(node.kids, IsJSXElementNode)
       IN IF Len(jsx) = 0 THEN [reports |-> <<>>, seen |-> seenSet]
          ELSE LET map == <<>>
                   missing == missingArrayKeys(node, p, 1)
                   dup == IF warnOnDuplicates THEN reportNonUniqueKeys(map, seenSet)
                          ELSE [reports |-> <<>>, seen |-> seenSet]
               IN [reports |-> missing \o dup.reports, seen |-> dup.seen]

\* Mutant: the exempt flag is not consulted
JSXFragmentHandlerIgnoresFlag(node, p, parent, within, checkFragmentShorthand) ==
  IF ~checkFragmentShorthand THEN <<>>
  ELSE IF parent.type = "ArrayExpression"
       THEN <<Report(p, "missingArrayKeyUsePrag")>>
       ELSE <<>>

\* Mutant: the fragment's parent, the array, is the node reported
JSXFragmentHandlerReportsParent(node, p, parent, within, checkFragmentShorthand) ==
  IF ~checkFragmentShorthand \/ within THEN <<>>
  ELSE IF parent.type = "ArrayExpression"
       THEN <<Report(Front(p), "missingArrayKeyUsePrag")>>
       ELSE <<>>

\* Mutant: the option is not consulted
JSXFragmentHandlerIgnoresOption(node, p, parent, within, checkFragmentShorthand) ==
  IF within THEN <<>>
  ELSE IF parent.type = "ArrayExpression"
       THEN <<Report(p, "missingArrayKeyUsePrag")>>
       ELSE <<>>

JSXFragmentHandler(node, p, parent, within, checkFragmentShorthand) ==
  IF ~checkFragmentShorthand \/ within THEN <<>>
  ELSE IF parent.type = "ArrayExpression"
       THEN <<Report(p, "missingArrayKeyUsePrag")>>
       ELSE <<>>

\* Mutant: a call whose first argument is no function is reported
MapHandlerReportsNonFunction(node, p, within, checkFragmentShorthand) ==
  IF within THEN <<>>
  ELSE LET fn == Kid(node, 1)
       IN IF fn = Null \/ ~isFunctionLikeExpression(fn)
          THEN <<Report(p, "missingIterKey")>>
          ELSE At(Append(p, 1), checkArrowFunctionWithJSX(fn, checkFragmentShorthand)
                                \o checkFunctionsBlockStatement(fn, checkFragmentShorthand))

MapHandler(node, p, within, checkFragmentShorthand) ==
  IF within THEN <<>>
  ELSE LET fn == Kid(node, 1)
       IN IF fn = Null \/ ~isFunctionLikeExpression(fn) THEN <<>>
          ELSE At(Append(p, 1), checkArrowFunctionWithJSX(fn, checkFragmentShorthand)
                                \o checkFunctionsBlockStatement(fn, checkFragmentShorthand))

\* Mutant: the arrow check is handed the callback's body
FromHandlerChecksBody(node, p, within, checkFragmentShorthand) ==
  IF within THEN <<>>
  ELSE LET fn == Kid(node, 2)
       IN IF ~isFunctionLikeExpression(fn) THEN <<>>
          ELSE At(Append(p, 2),
                  At(<<1>>, checkArrowFunctionWithJSX(Body(fn), checkFragmentShorthand))
                  \o checkFunctionsBlockStatement(fn, checkFragmentShorthand))

FromHandler(node, p, within, checkFragmentShorthand) ==
  IF within THEN <<>>
  ELSE LET fn == Kid(node, 2)
       IN IF ~isFunctionLikeExpression(fn) THEN <<>>
          ELSE At(Append(p, 2), checkArrowFunctionWithJSX(fn, checkFragmentShorthand)
                                \o checkFunctionsBlockStatement(fn, checkFragmentShorthand))

-----------------------------------------------------------------------------
(* useMethodUsage: selector and the kinds its ancestor walk knows *)

UpperCase ==
  {"A", "B", "C", "D", "E", "F", "G", "H", "I", "J", "K", "L", "M",
   "N", "O", "P", "Q", "R", "S", "T", "U", "V", "W", "X", "Y", "Z"}
startsWithUse(name) == Len(name) >= 3 /\ SubSeq(name, 1, 3) = <<"u", "s", "e">>
\* /^use[A-Z]/
matchesUseRegex(name) == startsWithUse(name) /\ Len(name) >= 4 /\ name[4] \in UpperCase

useCallSelector(node) ==
  node.type = "CallExpression" /\ matchesUseRegex(node.callee.name)

PassThroughTypes ==
  {"VariableDeclarator", "VariableDeclaration", "ExpressionStatement", "MemberExpression",
   "BinaryExpression", "UnaryExpression", "ReturnStatement", "BlockStatement",
   "ChainExpression", "Property", "ObjectExpression", "CallExpression", "TSAsExpression"}

\* One pass of the switch on parent.type: "again" (break, and the loop tests
\* the same parent again), "return" or "report" (report, then return)
useSwitch(parent, grandparent) ==
  IF parent.type \in PassThroughTypes THEN "again"
  ELSE IF parent.type \in {"ArrowFunctionExpression", "FunctionExpression"}
  THEN IF grandparent.type = "VariableDeclarator" /\ startsWithUse(grandparent.id)
       THEN "return"
       ELSE IF /\ grandparent.type = "CallExpression"
               /\ grandparent.callee.type = "Identifier"
               /\ grandparent.callee.name = NameComponent
            THEN "return"
            ELSE "report"
  ELSE IF parent.type = "FunctionDeclaration"
  THEN IF ~startsWithUse(parent.id) THEN "report" ELSE "return"
  ELSE "report"

-----------------------------------------------------------------------------
(* The run *)

JsxKeyListeners ==
  {"childrenToArraySelector", "childrenToArraySelector:exit", "ArrayExpression",
   "JSXElement > JSXElement", "JSXFragment", "map", "from"}
UseMethodUsageListeners == {"use"}

NoWalk == [active |-> FALSE, parent |-> <<>>]
NotCalled == [called |-> FALSE, value |-> <<>>]

Init ==
  /\ rule \in {"jsxKey", "useMethodUsage"}
  /\ comments \in CommentLists
  /\ ctxOptions \in (IF rule = "jsxKey" THEN OptionObjects ELSE {Undefined})
  /\ ast \in Programs
  /\ queue = Events(ast, <<>>)
  /\ phase = "start"
  /\ listeners = {}
  /\ options = defaultOptions
  /\ isWithinChildrenToArray = FALSE
  /\ seen = {}
  /\ reports = <<>>
  /\ pc = 1
  /\ walk = NoWalk
  /\ previous = Undefined
  /\ leftFlag = FALSE
  /\ props = Undefined
  /\ state = Undefined
  /\ screen = <<>>
  /\ clicks = <<>>
  /\ fnBody = Null
  /\ collected = NotCalled

inputs == <<rule, comments, ctxOptions, ast, queue>>
history == <<previous, leftFlag>>
counter == <<props, state, screen, clicks>>
collector == <<fnBody, collected>>

\* Mutant: the flag and the seen-set are not created anew
JsxKeyCreateKeepsState ==
  /\ phase = "start" /\ rule = "jsxKey"
  /\ phase' = "traverse"
  /\ IF modifyJsxSource(comments)
     THEN listeners' = {} /\ options' = options
     ELSE /\ listeners' = JsxKeyListeners
          /\ options' = ObjectAssign(defaultOptions, ctxOptions)
  /\ UNCHANGED <<inputs, history, counter, collector, isWithinChildrenToArray, seen, reports, pc, walk>>

\* jsxKey.create(context)
JsxKeyCreate ==
  /\ phase = "start" /\ rule = "jsxKey"
  /\ phase' = "traverse"
  /\ IF modifyJsxSource(comments)
     THEN listeners' = {} /\ options' = options
     ELSE /\ listeners' = JsxKeyListeners
          /\ options' = ObjectAssign(defaultOptions, ctxOptions)
  /\ isWithinChildrenToArray' = FALSE
  /\ seen' = {}
  /\ UNCHANGED <<inputs, history, counter, collector, reports, pc, walk>>

\* useMethodUsage.create(context)
UseMethodUsageCreate ==
  /\ phase = "start" /\ rule = "useMethodUsage"
  /\ phase' = "traverse"
  /\ listeners' = IF modifyJsxSource(comments) THEN {} ELSE UseMethodUsageListeners
  /\ UNCHANGED <<inputs, history, counter, collector, options, isWithinChildrenToArray, seen, reports, pc, walk>>

Traversing == phase = "traverse" /\ pc <= Len(queue)
Ev == queue[pc]
Cur == NodeAt(ast, Ev.node)
Parent == IF Ev.node = <<>> THEN Null ELSE NodeAt(ast, Front(Ev.node))

\* Whether listener l is called for the event
Matches(l, kind, node, parent) ==
  \/ l = "childrenToArraySelector" /\ kind = "enter" /\ childrenToArraySelector(node)
  \/ l = "childrenToArraySelector:exit" /\ kind = "exit" /\ childrenToArraySelector(node)
  \/ l = "ArrayExpression" /\ kind = "enter" /\ node.type = "ArrayExpression"
  \/ l = "JSXElement > JSXElement" /\ kind = "enter" /\ nestedElementSelector(node, parent)
  \/ l = "JSXFragment" /\ kind = "enter" /\ node.type = "JSXFragment"
  \/ l = "map" /\ kind = "enter" /\ mapSelector(node)
  \/ l = "from" /\ kind = "enter" /\ fromSelector(node)
  \/ l = "use" /\ kind = "enter" /\ useCallSelector(node)

Called(l) == Traversing /\ l \in listeners /\ Matches(l, Ev.kind, Cur, Parent)

EnterChildrenToArray ==
  /\ Called("childrenToArraySelector")
  /\ isWithinChildrenToArray' = TRUE
  /\ pc' = pc + 1
  /\ UNCHANGED <<inputs, history, counter, collector, phase, listeners, options, seen, reports, walk>>

\* Mutant: leaving an exempt call does not lower the flag
ExitChildrenToArrayKeepsFlag ==
  /\ Called("childrenToArraySelector:exit")
  /\ pc' = pc + 1
  /\ UNCHANGED <<inputs, history, counter, collector, phase, listeners, options,
                 isWithinChildrenToArray, seen, reports, walk>>

ExitChildrenToArray ==
  /\ Called("childrenToArraySelector:exit")
  /\ isWithinChildrenToArray' = FALSE
  /\ pc' = pc + 1
  /\ UNCHANGED <<inputs, history, counter, collector, phase, listeners, options, seen, reports, walk>>

OnArrayExpression ==
  /\ Called("ArrayExpression")
  /\ LET r == ArrayExpressionHandler(Cur, isWithinChildrenToArray,
                                      options.warnOnDuplicates, seen)
     IN reports' = reports \o r.reports /\ seen' = r.seen
  /\ pc' = pc + 1
  /\ UNCHANGED <<inputs, history, counter, collector, phase, listeners, options, isWithinChildrenToArray, walk>>

OnNestedElement ==
  /\ Called("JSXElement > JSXElement")
  /\ LET r == NestedElementHandler(Cur, Ev.node, isWithinChildrenToArray,
                                    options.warnOnDuplicates, seen)
     IN reports' = reports \o r.reports /\ seen' = r.seen
  /\ pc' = pc + 1
  /\ UNCHANGED <<inputs, history, counter, collector, phase, listeners, options, isWithinChildrenToArray, walk>>

OnJSXFragment ==
  /\ Called("JSXFragment")
  /\ reports' = reports \o JSXFragmentHandler(Cur, Ev.node, Parent, isWithinChildrenToArray,
                                               options.checkFragmentShorthand)
  /\ pc' = pc + 1
  /\ UNCHANGED <<inputs, history, counter, collector, phase, listeners, options, isWithinChildrenToArray, seen, walk>>

OnMap ==
  /\ Called("map")
  /\ reports' = reports \o MapHandler(Cur, Ev.node, isWithinChildrenToArray,
                                       options.checkFragmentShorthand)
  /\ pc' = pc + 1
  /\ UNCHANGED <<inputs, history, counter, collector, phase, listeners, options, isWithinChildrenToArray, seen, walk>>

OnFrom ==
  /\ Called("from")
  /\ reports' = reports \o FromHandler(Cur, Ev.node, isWithinChildrenToArray,
                                        options.checkFragmentShorthand)
  /\ pc' = pc + 1
  /\ UNCHANGED <<inputs, history, counter, collector, phase, listeners, options, isWithinChildrenToArray, seen, walk>>

\* One turn of the handler's `while (parent)` loop; parent is never reassigned
OnUseCall ==
  /\ Called("use")
  /\ LET parentPath == Front(Ev.node)
         outcome == useSwitch(NodeAt(ast, parentPath), NodeAt(ast, Front(parentPath)))
     IN IF outcome = "again"
        THEN /\ walk' = [active |-> TRUE, parent |-> parentPath]
             /\ UNCHANGED <<reports, pc>>
        ELSE /\ walk' = NoWalk
             /\ pc' = pc + 1
             /\ reports' = IF outcome = "report"
                           THEN Append(reports, Report(Ev.node, "useWrongFunction"))
                           ELSE reports
  /\ UNCHANGED <<inputs, history, counter, collector, phase, listeners, options, isWithinChildrenToArray, seen>>

\* An event no registered listener matches
Skip ==
  /\ Traversing
  /\ \A l \in listeners : ~Matches(l, Ev.kind, Cur, Parent)
  /\ pc' = pc + 1
  /\ UNCHANGED <<inputs, history, counter, collector, phase, listeners, options, isWithinChildrenToArray, seen, reports, walk>>

Finish ==
  /\ phase = "traverse" /\ pc > Len(queue)
  /\ phase' = "done"
  /\ UNCHANGED <<inputs, history, counter, collector, listeners, options, isWithinChildrenToArray, seen, reports, pc, walk>>

Next ==
  \/ JsxKeyCreate
  \/ UseMethodUsageCreate
  \/ EnterChildrenToArray
  \/ ExitChildrenToArray
  \/ OnArrayExpression
  \/ OnNestedElement
  \/ OnJSXFragment
  \/ OnMap
  \/ OnFrom
  \/ OnUseCall
  \/ Skip
  \/ Finish

Spec == Init /\ [][Next]_vars

-----------------------------------------------------------------------------
(* The same file linted again: the host calls create() once per run, with a *)
(* new context, and a run that is broken off leaves its closure behind.     *)

InitTwice ==
  /\ rule = "jsxKey"
  /\ comments \in CommentLists
  /\ ctxOptions \in OptionObjects
  /\ ast \in ProgramsTwice
  /\ queue = Events(ast, <<>>)
  /\ phase = "start"
  /\ listeners = {}
  /\ options = defaultOptions
  /\ isWithinChildrenToArray = FALSE
  /\ seen = {}
  /\ reports = <<>>
  /\ pc = 1
  /\ walk = NoWalk
  /\ previous = Undefined
  /\ leftFlag = FALSE
  /\ props = Undefined
  /\ state = Undefined
  /\ screen = <<>>
  /\ clicks = <<>>
  /\ fnBody = Null
  /\ collected = NotCalled

\* The finished run is kept for comparison and the file is linted again,
\* under any configuration
RunAgain ==
  /\ phase = "done"
  /\ previous' = [options |-> ctxOptions, reports |-> reports]
  /\ ctxOptions' \in OptionObjects
  /\ phase' = "start"
  /\ reports' = <<>>
  /\ pc' = 1
  /\ UNCHANGED <<rule, comments, ast, queue, listeners, options,
                 isWithinChildrenToArray, seen, walk, leftFlag, counter, collector>>

\* The traversal is broken off (another rule threw) and the file is linted
\* again under the same configuration
Abandon ==
  /\ Traversing
  /\ leftFlag' = isWithinChildrenToArray
  /\ phase' = "start"
  /\ reports' = <<>>
  /\ pc' = 1
  /\ UNCHANGED <<inputs, previous, counter, collector, listeners, options, isWithinChildrenToArray,
                 seen, walk>>

NextTwice ==
  \/ JsxKeyCreate
  \/ EnterChildrenToArray
  \/ ExitChildrenToArray
  \/ OnArrayExpression
  \/ OnNestedElement
  \/ OnJSXFragment
  \/ OnMap
  \/ OnFrom
  \/ Skip
  \/ Finish
  \/ RunAgain
  \/ Abandon

SpecTwice == InitTwice /\ [][NextTwice]_vars

-----------------------------------------------------------------------------
(* Vocabulary of the properties *)

AllPaths == {queue[i].node : i \in 1..Len(queue)}
IsProperPrefix(q, p) == Len(q) < Len(p) /\ SubSeq(p, 1, Len(q)) = q
\* p lies in the subtree of a call of the exempt shape
InsideExempt(p) ==
  \E q \in AllPaths : IsProperPrefix(q, p) /\ childrenToArraySelector(NodeAt(ast, q))
ReportsAt(p) == {i \in 1..Len(reports) : reports[i].node = p}
ReportsOf(p, m) == {i \in ReportsAt(p) : reports[i].messageId = m}
\* some comment of the file contains the pragma
HasPragma == \E i \in 1..Len(comments) : Includes(comments[i].value, <<"@jsxImportSource">>)
\* a finished run of jsxKey over a file without the pragma
JsxKeyRan == rule = "jsxKey" /\ phase = "done" /\ ~HasPragma
\* the map calls outside every exempt call
MapCalls == {p \in AllPaths : mapSelector(NodeAt(ast, p)) /\ ~InsideExempt(p)}
HasKey(el) == hasProp(el.attributes, "key")

-----------------------------------------------------------------------------
(* C1. No diagnostic is anchored at a node inside the subtree of an exempt  *)
(* call (Children.toArray(...) or Fragment.Children.toArray(...)), also     *)
(* after an exempt call nested in the same arguments has been left.         *)
(* The flag is a flat boolean, so the inner exit clears it: this fails.     *)
C1_ExemptSubtreeSilent ==
  rule = "jsxKey" => \A i \in 1..Len(reports) : ~InsideExempt(reports[i].node)

-----------------------------------------------------------------------------
(* C2. With no pragma and outside any exempt call, a .map(cb) call whose    *)
(* first argument is an arrow function with a keyless JSX element as its    *)
(* expression body draws exactly one missingIterKey, anchored at that       *)
(* element.  The arrow check hands the function, not its body, to the       *)
(* element check, so nothing is reported: this fails.                       *)
KeylessArrowBody(p) ==
  LET fn == Kid(NodeAt(ast, p), 1)
  IN /\ fn.type = "ArrowFunctionExpression"
     /\ Body(fn).type = "JSXElement"
     /\ ~HasKey(Body(fn))
C2_ArrowBodyElementReported ==
  JsxKeyRan =>
    \A p \in MapCalls :
       KeylessArrowBody(p) =>
         /\ Cardinality(ReportsOf(p \o <<1, 1>>, "missingIterKey")) = 1
         /\ Cardinality(ReportsAt(p \o <<1, 1>>)) = 1

-----------------------------------------------------------------------------
(* C3. The claim as made: every keyless JSX element P with exactly two      *)
(* JSX-element children, wherever it sits, has one missingArrayKey at each  *)
(* child and none at itself.                                                *)
ElementKids(p) ==
  {i \in 1..Len(NodeAt(ast, p).kids) : NodeAt(ast, p).kids[i].type = "JSXElement"}
TwoChildParents ==
  {p \in AllPaths : /\ NodeAt(ast, p).type = "JSXElement"
                    /\ ~HasKey(NodeAt(ast, p))
                    /\ Cardinality(ElementKids(p)) = 2
                    /\ ~InsideExempt(p)}
ParentIsElement(p) == p # <<>> /\ NodeAt(ast, Front(p)).type = "JSXElement"
-----------------------------------------------------------------------------
(* C4. If a comment of the file contains @jsxImportSource, create() of      *)
(* either rule returns no handlers and the run makes no report, whatever    *)
(* the tree and the options; the test is made in create(), before the first *)
(* traversal event, and the handlers registered then never change.          *)
C4_PragmaSilences ==
  /\ phase = "start" => pc = 1 /\ reports = <<>> /\ listeners = {}
  /\ HasPragma => listeners = {} /\ reports = <<>>
  /\ (phase # "start" /\ ~HasPragma) =>
        listeners = (IF rule = "jsxKey" THEN JsxKeyListeners ELSE UseMethodUsageListeners)
C4_Witness ==
  /\ phase = "done" /\ rule = "jsxKey"
  /\ HasPragma
  /\ options = defaultOptions /\ ctxOptions = [n \in OptionNames |-> TRUE]
  /\ ast = Program(<<ExpressionStatement(JSXElement(<<>>, <<JSXElement(<<>>, <<Li>>)>>))>>)

-----------------------------------------------------------------------------
(* C5. In a run of jsxKey over a file without the pragma, a shorthand       *)
(* fragment whose parent is an array literal, outside every exempt call,    *)
(* carries exactly one diagnostic, a missingArrayKeyUsePrag, when           *)
(* checkFragmentShorthand is true (whatever warnOnDuplicates is), and none  *)
(* when it is false.                                                        *)
ArrayFragments ==
  {p \in AllPaths : /\ NodeAt(ast, p).type = "JSXFragment"
                    /\ p # <<>> /\ NodeAt(ast, Front(p)).type = "ArrayExpression"
                    /\ ~InsideExempt(p)}
C5_FragmentInArray ==
  JsxKeyRan =>
    \A p \in ArrayFragments :
       IF options.checkFragmentShorthand
       THEN /\ Cardinality(ReportsOf(p, "missingArrayKeyUsePrag")) = 1
            /\ Cardinality(ReportsAt(p)) = 1
       ELSE ReportsAt(p) = {}
C5_Witness ==
  /\ JsxKeyRan
  /\ options.checkFragmentShorthand /\ options.warnOnDuplicates
  /\ \E p \in ArrayFragments : ReportsOf(p, "missingArrayKeyUsePrag") # {}

-----------------------------------------------------------------------------
(* C6. A .map(cb) call whose arrow callback has a bare shorthand fragment   *)
(* as its expression body draws no diagnostic when checkFragmentShorthand   *)
(* is false and exactly one missingIterKeyUsePrag, anchored at the          *)
(* fragment, when it is true.  The fragment is never handed to the element  *)
(* check, so with the option true nothing is reported: this fails.          *)
FragmentArrowBody(p) ==
  LET fn == Kid(NodeAt(ast, p), 1)
  IN fn.type = "ArrowFunctionExpression" /\ Body(fn).type = "JSXFragment"
C6_ArrowBodyFragmentReported ==
  JsxKeyRan =>
    \A p \in MapCalls :
       FragmentArrowBody(p) =>
         IF options.checkFragmentShorthand
         THEN /\ Cardinality(ReportsOf(p \o <<1, 1>>, "missingIterKeyUsePrag")) = 1
              /\ Cardinality(ReportsAt(p \o <<1, 1>>)) = 1
         ELSE ReportsAt(p \o <<1, 1>>) = {}

-----------------------------------------------------------------------------
(* C7. The iterator-element check reports neither a JSX element that has a  *)
(* key attribute nor a node that is no JSX; and a .map(cb) call whose arrow *)
(* callback returns a keyed JSX element without JSX children has no         *)
(* diagnostic anywhere in its subtree, under every configuration.           *)
IsPrefix(q, p) == Len(q) <= Len(p) /\ SubSeq(p, 1, Len(q)) = q
KeyedArrowBody(p) ==
  LET fn == Kid(NodeAt(ast, p), 1)
  IN /\ fn.type = "ArrowFunctionExpression"
     /\ Body(fn).type = "JSXElement"
     /\ HasKey(Body(fn))
     /\ \A i \in 1..Len(Body(fn).kids) :
          Body(fn).kids[i].type \notin {"JSXElement", "JSXFragment"}
C7_KeyedElementNotReported ==
  /\ phase = "start" => \A p \in AllPaths : \A cfs \in BOOLEAN :
        LET n == NodeAt(ast, p)
        IN (n.type \notin {"JSXElement", "JSXFragment"} \/ (n.type = "JSXElement" /\ HasKey(n)))
             => checkIteratorElement(n, p, cfs) = <<>>
  /\ rule = "jsxKey" =>
        \A p \in AllPaths :
           (mapSelector(NodeAt(ast, p)) /\ KeyedArrowBody(p)) =>
              \A i \in 1..Len(reports) : ~IsPrefix(p, reports[i].node)
C7_Witness ==
  /\ JsxKeyRan
  /\ options.checkFragmentShorthand
  /\ \E p \in MapCalls : KeyedArrowBody(p)

-----------------------------------------------------------------------------
(* C8. For a .map(cb) call whose callback has a block body, every return    *)
(* statement of the block or of its nested if/else chains whose argument is *)
(* a keyless JSX element has one missingIterKey anchored at that element.   *)
(* The block check asks a function node whether it is a BlockStatement, so  *)
(* no return statement is ever collected: this fails.                       *)
RECURSIVE ChainReturns(_, _)
ChainReturns(n, p) ==
  IF n.type = "ReturnStatement" THEN {p}
  ELSE IF n.type = "BlockStatement"
  THEN UNION {ChainReturns(n.kids[i], Append(p, i)) : i \in 1..Len(n.kids)}
  ELSE IF n.type = "IfStatement"
  THEN UNION {ChainReturns(n.kids[i], Append(p, i)) : i \in 2..Len(n.kids)}
  ELSE {}
C8_BlockReturnsReported ==
  JsxKeyRan =>
    \A p \in MapCalls :
       LET fn == Kid(NodeAt(ast, p), 1)
       IN (isFunctionLikeExpression(fn) /\ Body(fn).type = "BlockStatement") =>
            \A r \in ChainReturns(Body(fn), p \o <<1, 1>>) :
               LET ret == NodeAt(ast, r)
               IN (Len(ret.kids) > 0 /\ ret.kids[1].type = "JSXElement" /\ ~HasKey(ret.kids[1]))
                    => Cardinality(ReportsOf(Append(r, 1), "missingIterKey")) = 1

-----------------------------------------------------------------------------
(* C9. For a .map(cb) call whose arrow callback has a conditional           *)
(* expression as its body, a keyless JSX element that is its consequent or  *)
(* its alternate has one missingIterKey; likewise the right-hand operand of *)
(* a logical expression that is the body.  The arrow check tests the type   *)
(* of the function, not of its body, so neither branch is looked at: this   *)
(* fails.                                                                   *)
C9_BranchesReported ==
  JsxKeyRan =>
    \A p \in MapCalls :
       LET fn == Kid(NodeAt(ast, p), 1)
       IN fn.type = "ArrowFunctionExpression" =>
            \A i \in 2..Len(Body(fn).kids) :
               LET branch == Body(fn).kids[i]
               IN (/\ Body(fn).type \in {"ConditionalExpression", "LogicalExpression"}
                   /\ branch.type = "JSXElement" /\ ~HasKey(branch))
                    => Cardinality(ReportsOf(p \o <<1, 1, i>>, "missingIterKey")) = 1

-----------------------------------------------------------------------------
(* C10. The handler of .from(...) takes the second argument as the callback *)
(* and never the first: when that argument is function-like it reports, at  *)
(* the same places of the callback and with the same kinds, what the        *)
(* handler of .map(...) reports for a call with that callback as its first  *)
(* argument under the same flag and options; otherwise it reports nothing.  *)
SameInCallback(mapReports, fromReports, call) ==
  /\ Len(mapReports) = Len(fromReports)
  /\ \A i \in 1..Len(mapReports) :
       /\ mapReports[i].messageId = fromReports[i].messageId
       /\ fromReports[i].node = (Append(call, 2)
            \o SubSeq(mapReports[i].node, Len(call) + 2, Len(mapReports[i].node)))
C10_FromLikeMap ==
  [][Called("from") =>
       LET cb == Kid(Cur, 2)
           emitted == SubSeq(reports', Len(reports) + 1, Len(reports'))
       IN /\ SubSeq(reports', 1, Len(reports)) = reports
          /\ IF isFunctionLikeExpression(cb)
             THEN SameInCallback(MapHandler(CallExpression(CalleeMap, <<cb>>), Ev.node,
                                            isWithinChildrenToArray,
                                            options.checkFragmentShorthand),
                                 emitted, Ev.node)
             ELSE emitted = <<>>]_vars
C10_Witness ==
  /\ rule = "jsxKey" /\ phase = "traverse" /\ pc > 1
  /\ "from" \in listeners /\ ~isWithinChildrenToArray
  /\ options.checkFragmentShorthand
  /\ LET e == queue[pc - 1]
         call == NodeAt(ast, e.node)
     IN /\ e.kind = "enter" /\ fromSelector(call)
        /\ isFunctionLikeExpression(Kid(call, 2))
        /\ Body(Kid(call, 2)).type = "ConditionalExpression"
        /\ Kid(Body(Kid(call, 2)), 2) = Li

-----------------------------------------------------------------------------
(* The MyCounter component of the component test: a store with a count,    *)
(* shown in a <span> between a decrement and an increment button           *)

\* The props: step and value are optional numbers
StepValues == {-2, 0, 1, 5}
CountValues == {-1, 0, 15}
PropsObjects ==
  [{} -> {0}]
  \cup [{"step"} -> StepValues]
  \cup [{"value"} -> CountValues]
  \cup {[step |-> st, value |-> v] : st \in StepValues, v \in CountValues}

\* a || b for an optional number a: undefined and 0 are falsy
OrElse(obj, field, b) ==
  IF field \in DOMAIN obj /\ obj[field] # 0 THEN obj[field] ELSE b

\* String(n) of an integer, as its characters
Digits == <<"0", "1", "2", "3", "4", "5", "6", "7", "8", "9">>
RECURSIVE NaturalToString(_)
NaturalToString(n) ==
  IF n < 10 THEN <<Digits[n + 1]>>
  ELSE Append(NaturalToString(n \div 10), Digits[(n % 10) + 1])
NumberToString(n) == IF n < 0 THEN <<"-">> \o NaturalToString(-n) ELSE NaturalToString(n)

\* Mutant: the step is not applied
MyCounter_updateByOne(p, st, args) == [st EXCEPT !.count = @ + args.dir]

\* state.count += args.dir * (props.step || 1)
MyCounter_update(p, st, args) ==
  [st EXCEPT !.count = @ + args.dir * OrElse(p, "step", 1)]

\* what MyCounter renders into the <span>
SpanText(st) == NumberToString(st.count)

InitCounter ==
  /\ rule = "none"
  /\ comments = <<>>
  /\ ctxOptions = Undefined
  /\ ast = Program(<<>>)
  /\ queue = <<>>
  /\ phase = "done"
  /\ listeners = {}
  /\ options = defaultOptions
  /\ isWithinChildrenToArray = FALSE
  /\ seen = {}
  /\ reports = <<>>
  /\ pc = 1
  /\ walk = NoWalk
  /\ previous = Undefined
  /\ leftFlag = FALSE
  /\ props \in PropsObjects
  /\ state = Undefined
  /\ screen = <<>>
  /\ clicks = <<>>
  /\ fnBody = Null
  /\ collected = NotCalled

linter == <<rule, comments, ctxOptions, ast, queue, phase, listeners, options,
            isWithinChildrenToArray, seen, reports, pc, walk, previous, leftFlag>>

\* render(<MyCounter step=... value=... />): the component function runs
Render ==
  /\ state = Undefined
  /\ state' = [count |-> OrElse(props, "value", 0)]
  /\ screen' = SpanText(state')
  /\ UNCHANGED <<linter, collector, props, clicks>>

\* userEvent(button, 'click'): the button's handler runs with its dir, and
\* the component is rendered again
Click(dir) ==
  /\ state # Undefined
  /\ Len(clicks) < MaxClicks
  /\ state' = MyCounter_update(props, state, [dir |-> dir])
  /\ screen' = SpanText(state')
  /\ clicks' = Append(clicks, dir)
  /\ UNCHANGED <<linter, collector, props>>

ClickDecrement == Click(-1)
ClickIncrement == Click(1)

NextCounter ==
  \/ Render
  \/ ClickDecrement
  \/ ClickIncrement

SpecCounter == InitCounter /\ [][NextCounter]_vars

-----------------------------------------------------------------------------
(* getReturnStatements called on the block body of a function *)

ForStatement(body) == Node("ForStatement", <<body>>)
WhileStatement(test, body) == Node("WhileStatement", <<test, body>>)
SwitchCase(consequent) == Node("SwitchCase", consequent)
SwitchStatement(discriminant, cases) == Node("SwitchStatement", <<discriminant>> \o cases)
TryStatement(block) == Node("TryStatement", <<block>>)

\* The statements of the blocks: returns, ifs with braced and unbraced
\* branches, else-if chains, and statements with a return of their own
ReturnForms == {ReturnStatement(Li), ReturnStatement(Null)}
BranchForms == ReturnForms \cup {BlockStatement(<<ReturnStatement(Li)>>)}
StatementForms ==
  ReturnForms
  \cup {IfStatement(X, c, a) : c \in BranchForms, a \in {Null} \cup BranchForms}
  \cup {IfStatement(X, ReturnStatement(Li), IfStatement(X, c, ReturnStatement(Li))) :
           c \in BranchForms}
  \cup {ForStatement(BlockStatement(<<ReturnStatement(Li)>>)),
        WhileStatement(X, ReturnStatement(Li)),
        SwitchStatement(X, <<SwitchCase(<<ReturnStatement(Li)>>)>>),
        TryStatement(BlockStatement(<<ReturnStatement(Li)>>)),
        ExpressionStatement(X)}
  \cup NestedFunctionStatements
FunctionBlocks ==
  {BlockStatement(sts) : sts \in UNION {[1..n -> StatementForms] : n \in 0..MaxStatements}}

InitReturns ==
  /\ rule = "none"
  /\ comments = <<>>
  /\ ctxOptions = Undefined
  /\ ast = Program(<<>>)
  /\ queue = <<>>
  /\ phase = "done"
  /\ listeners = {}
  /\ options = defaultOptions
  /\ isWithinChildrenToArray = FALSE
  /\ seen = {}
  /\ reports = <<>>
  /\ pc = 1
  /\ walk = NoWalk
  /\ previous = Undefined
  /\ leftFlag = FALSE
  /\ props = Undefined
  /\ state = Undefined
  /\ screen = <<>>
  /\ clicks = <<>>
  /\ fnBody \in FunctionBlocks
  /\ collected = NotCalled

\* getReturnStatements(body, []): the statements returned, as their paths
\* from the block
CollectReturns ==
  /\ collected = NotCalled
  /\ collected' = [called |-> TRUE, value |-> getReturnStatements(fnBody, <<>>, <<>>)]
  /\ UNCHANGED <<linter, counter, fnBody>>

NextReturns == CollectReturns

SpecReturns == InitReturns /\ [][NextReturns]_vars

-----------------------------------------------------------------------------
(* Runs of jsxKey compared *)

\* the effective options of a configuration
Effective(given) == ObjectAssign(defaultOptions, given)
\* two configurations that agree on every option but, possibly, option o
AgreeBut(o, a, b) == \A k \in OptionNames \ {o} : Effective(a)[k] = Effective(b)[k]
\* a second or later run has finished
RanAgain == rule = "jsxKey" /\ phase = "done" /\ previous # Undefined

\* C11: a run of jsxKey after an earlier finished run of the same tree
\* under the same configuration gives the same diagnostics in the same
\* order, and every run starts its traversal with the exempt flag down
\* and the seen-set empty, whatever the run before left behind.
C11_RunsAgree ==
  /\ RanAgain /\ previous.options = ctxOptions => reports = previous.reports
  /\ phase = "traverse" /\ pc = 1 => ~isWithinChildrenToArray /\ seen = {}

\* Witness: a run has been broken off inside an exempt call, and a later
\* run under the configuration of the finished one reported something
C11_Witness ==
  /\ RanAgain /\ previous.options = ctxOptions
  /\ leftFlag
  /\ reports # <<>>

\* C12: a run of jsxKey whose configuration differs from that of the
\* finished run before it in checkKeyMustBeforeSpread at most gives the
\* same diagnostics in the same order.
C12_KeyBeforeSpreadInert ==
  RanAgain /\ AgreeBut("checkKeyMustBeforeSpread", previous.options, ctxOptions)
    => reports = previous.reports

\* Witness: the two runs differ in the option, over a tree with an element
\* whose key attribute follows a spread, and something is reported
C12_Witness ==
  /\ RanAgain /\ AgreeBut("checkKeyMustBeforeSpread", previous.options, ctxOptions)
  /\ Effective(previous.options).checkKeyMustBeforeSpread
       # Effective(ctxOptions).checkKeyMustBeforeSpread
  /\ \E q \in AllPaths : isKeyAfterSpread(NodeAt(ast, q).attributes)
  /\ reports # <<>>

-----------------------------------------------------------------------------
(* Anchors *)

\* the node type each message of jsxKey is reported at
AnchorType(messageId) ==
  IF messageId \in {"missingIterKey", "missingArrayKey"} THEN "JSXElement"
  ELSE IF messageId \in {"missingIterKeyUsePrag", "missingArrayKeyUsePrag"} THEN "JSXFragment"
  ELSE "none"

\* C14: every diagnostic of jsxKey is anchored at a node of the tree, a
\* JSX element for missingIterKey and missingArrayKey and a shorthand
\* fragment for the two UsePrag messages.
C14_AnchorsAreJsxNodes ==
  rule = "jsxKey" =>
    \A i \in 1..Len(reports) :
       /\ reports[i].node \in AllPaths
       /\ NodeAt(ast, reports[i].node).type = AnchorType(reports[i].messageId)

\* Witness: a finished run that reported two fragments of one array
C14_Witness ==
  /\ rule = "jsxKey" /\ phase = "done"
  /\ Len(reports) = 2
  /\ \A i \in 1..2 : reports[i].messageId = "missingArrayKeyUsePrag"

-----------------------------------------------------------------------------
(* Calls and arrays the handlers have nothing to check in *)

\* the event is a handler's call on a node of a shape it gives up on: a map
\* call without a function as first argument, a from call without a
\* function as second argument, an array literal with a hole
GivesUp ==
  \/ Called("map") /\ ~isFunctionLikeExpression(Kid(Cur, 1))
  \/ Called("from") /\ ~isFunctionLikeExpression(Kid(Cur, 2))
  \/ Called("ArrayExpression") /\ \E i \in 1..Len(Cur.kids) : Cur.kids[i] = Null

\* C15: called on such a node, the handler returns (the traversal goes on
\* to the next event) having reported nothing and changed neither the
\* exempt flag nor the seen-set.
C15_FailOpen ==
  [][GivesUp => /\ pc' = pc + 1
                /\ phase' = phase
                /\ reports' = reports
                /\ isWithinChildrenToArray' = isWithinChildrenToArray
                /\ seen' = seen]_vars

\* Witness: the map handler has just returned from a call without
\* arguments, outside every exempt call
C15_Witness ==
  /\ rule = "jsxKey" /\ ~HasPragma /\ phase = "traverse" /\ pc > 1
  /\ queue[pc - 1].kind = "enter"
  /\ mapSelector(NodeAt(ast, queue[pc - 1].node))
  /\ NodeAt(ast, queue[pc - 1].node).kids = <<>>
  /\ ~isWithinChildrenToArray

-----------------------------------------------------------------------------
(* useMethodUsage: where a use* call stands *)

FunctionTypes == {"ArrowFunctionExpression", "FunctionExpression", "FunctionDeclaration"}
EnclosingFunctions(p) ==
  {q \in AllPaths : IsProperPrefix(q, p) /\ NodeAt(ast, q).type \in FunctionTypes}
\* the nearest enclosing function of the node at p
NearestFunction(p) ==
  CHOOSE q \in EnclosingFunctions(p) : \A r \in EnclosingFunctions(p) : Len(r) <= Len(q)
\* the call at p is a variable's initializer, an expression statement or a
\* return argument among the statements of its function's body
StatementOfBody(p) ==
  /\ EnclosingFunctions(p) # {}
  /\ NodeAt(ast, Front(p)).type \in {"VariableDeclarator", "ExpressionStatement", "ReturnStatement"}
  /\ \A q \in AllPaths :
        IsProperPrefix(NearestFunction(p), q) /\ IsProperPrefix(q, p)
          => NodeAt(ast, q).type \in {"BlockStatement", "VariableDeclaration", "VariableDeclarator",
                                      "ExpressionStatement", "ReturnStatement"}
IsFunctionExpressionAt(f) ==
  NodeAt(ast, f).type \in {"ArrowFunctionExpression", "FunctionExpression"}
\* the function at f is an argument of a call of component$
IsComponentCallback(f) ==
  /\ IsFunctionExpressionAt(f)
  /\ NodeAt(ast, Front(f)).type = "CallExpression"
  /\ NodeAt(ast, Front(f)).callee = CalleeIdentifier(NameComponent)
\* the function at f is a custom hook
IsCustomHook(f) ==
  \/ /\ IsFunctionExpressionAt(f)
     /\ NodeAt(ast, Front(f)).type = "VariableDeclarator"
     /\ startsWithUse(NodeAt(ast, Front(f)).id)
  \/ /\ NodeAt(ast, f).type = "FunctionDeclaration"
     /\ startsWithUse(NodeAt(ast, f).id)
\* the handler, called for the current event, returns having reported rs
HandlerReturns(rs) == pc' = pc + 1 /\ phase' = phase /\ reports' = reports \o rs

\* C16: called on a use* call that is a statement of the body of a
\* function passed to component$, the handler returns without a report.
C16_ComponentBodyAccepted ==
  [][Called("use") /\ StatementOfBody(Ev.node)
       /\ IsComponentCallback(NearestFunction(Ev.node))
     => HandlerReturns(<<>>)]_vars

\* C17: called on a use* call that is a statement of the body of a custom
\* hook, the handler returns without a report.
C17_CustomHookBodyAccepted ==
  [][Called("use") /\ StatementOfBody(Ev.node)
       /\ IsCustomHook(NearestFunction(Ev.node))
     => HandlerReturns(<<>>)]_vars

\* C18: called on a use* call that is a statement of the body of an arrow
\* or function expression which is neither an argument of component$ nor
\* the initializer of a use* variable, the handler returns having made
\* one report, useWrongFunction at the call.
C18_PlainFunctionBodyReported ==
  [][Called("use") /\ StatementOfBody(Ev.node)
       /\ IsFunctionExpressionAt(NearestFunction(Ev.node))
       /\ ~IsComponentCallback(NearestFunction(Ev.node))
       /\ ~IsCustomHook(NearestFunction(Ev.node))
     => HandlerReturns(<<Report(Ev.node, "useWrongFunction")>>)]_vars

-----------------------------------------------------------------------------
(* Message texts *)

MessageIds ==
  {"missingIterKey", "missingIterKeyUsePrag", "missingArrayKey", "missingArrayKeyUsePrag",
   "nonUniqueKeys"}

\* the wording of the message catalog
CatalogWording ==
  [missingIterKey |-> <<"Missing key prop for element in iterator.">>,
   missingIterKeyUsePrag |->
     <<"Missing key prop for element in iterator. The key prop allows for improved rendering performance. Shorthand fragment syntax does not support providing keys. Use an explicit Fragment element instead.">>,
   missingArrayKey |->
     <<"Missing key prop for element in array. The key prop allows for improved rendering performance.">>,
   missingArrayKeyUsePrag |->
     <<"Missing key prop for element in array. The key prop allows for improved rendering performance. Shorthand fragment syntax does not support providing keys. Use an explicit Fragment element instead.">>,
   nonUniqueKeys |-> <<"key prop must be unique.">>]

\* the wording with key quoted, <Fragment> named, and no closing period
\* after "instead" and "unique"
QuotedWording ==
  [missingIterKey |-> <<"Missing \"key\" prop for element in iterator.">>,
   missingIterKeyUsePrag |->
     <<"Missing \"key\" prop for element in iterator. The key prop allows for improved rendering performance. Shorthand fragment syntax does not support providing keys. Use <Fragment> instead">>,
   missingArrayKey |->
     <<"Missing \"key\" prop for element in array. The key prop allows for improved rendering performance.">>,
   missingArrayKeyUsePrag |->
     <<"Missing \"key\" prop for element in array. The key prop allows for improved rendering performance. Shorthand fragment syntax does not support providing keys. Use <Fragment> instead">>,
   nonUniqueKeys |-> <<GraveAccent, "key", GraveAccent, " prop must be unique">>]

\* the five kinds have the texts of wording w, under the options of the
\* run, and so has every diagnostic reported
TextsAre(w) ==
  rule = "jsxKey" =>
    /\ DOMAIN messages = MessageIds
    /\ \A k \in MessageIds : messages[k] = w[k]
    /\ \A i \in 1..Len(reports) : messages[reports[i].messageId] = w[reports[i].messageId]

\* C19: the text of each of the five kinds is the catalog's wording,
\* whatever the options.
C19_CatalogTexts == TextsAre(CatalogWording)

\* C19, amended: the text of each of the five kinds is the quoted wording,
\* whatever the options.
C19_QuotedTexts == TextsAre(QuotedWording)

\* Witness: a finished run under all three options set that reported a
\* fragment, after a run under another configuration
C19_Witness ==
  /\ RanAgain /\ previous.options # ctxOptions
  /\ \A k \in OptionNames : Effective(ctxOptions)[k]
  /\ \E i \in 1..Len(reports) : reports[i].messageId = "missingArrayKeyUsePrag"

-----------------------------------------------------------------------------
(* MyCounter *)

\* the number a text of digits, with or without a sign, stands for
RECURSIVE ReadNatural(_)
ReadNatural(t) ==
  IF t = <<>> THEN 0
  ELSE 10 * ReadNatural(Front(t)) + (CHOOSE d \in 0..9 : Digits[d + 1] = t[Len(t)])
ReadNumber(t) == IF Head(t) = "-" THEN -ReadNatural(Tail(t)) ELSE ReadNatural(t)

\* v0 and s1: the value and the step, 0 and 1 when absent or 0
StartValue == IF "value" \in DOMAIN props THEN props["value"] ELSE 0
StepSize == IF "step" \in DOMAIN props /\ props["step"] # 0 THEN props["step"] ELSE 1
Clicked(t, dir) == Len(SelectSeq(t, LAMBDA d : d = dir))

\* C20: on every render and click of MyCounter the count stored, and the
\* count shown, is v0 + s1 * (increments - decrements); a click moves the
\* count by s1, up or down with the button, and leaves props and the rest
\* of the store as they were.
C20_CounterCounts ==
  [][/\ state' # Undefined =>
          /\ state'.count = StartValue + StepSize * (Clicked(clicks', 1) - Clicked(clicks', -1))
          /\ ReadNumber(screen') = state'.count
          /\ DOMAIN state' = {"count"}
     /\ props' = props
     /\ state # Undefined =>
          /\ clicks' = Append(clicks, 1) \/ clicks' = Append(clicks, -1)
          /\ state'.count = state.count + clicks'[Len(clicks')] * StepSize]_vars

\* Witness: the component test's counter, step 5 and value 15, after
\* decrement, increment, decrement shows 10
C20_Witness ==
  /\ props = [step |-> 5, value |-> 15]
  /\ clicks = <<-1, 1, -1>>
  /\ state = [count |-> 10]
  /\ screen = <<"1", "0">>

-----------------------------------------------------------------------------
(* useMethodUsage: the ancestor walk *)

\* C21: a turn of the handler's loop on a matched use* call either ends
\* the handler (the traversal goes on to the next event) or leaves the
\* walk at a strictly higher ancestor than the one the turn looked at.
C21_WalkClimbsOrEnds ==
  [][Called("use") =>
       \/ pc' = pc + 1 /\ ~walk'.active
       \/ walk'.active /\ IsProperPrefix(walk'.parent, Front(Ev.node))]_vars

-----------------------------------------------------------------------------
(* The nested-element scan and the containing element's key *)

\* C22: after a run of jsxKey, no JSX-element child of an element whose
\* opening tag has an attribute named key carries missingArrayKey.
C22_ParentKeySuppresses ==
  JsxKeyRan =>
    \A q \in AllPaths :
       NodeAt(ast, q).type = "JSXElement" /\ HasKey(NodeAt(ast, q))
         => \A i \in ElementKids(q) : ReportsOf(Append(q, i), "missingArrayKey") = {}

-----------------------------------------------------------------------------
(* The exempt flag *)

\* one of the five scanning handlers is called for the event
ScanCalled ==
  \/ Called("ArrayExpression")
  \/ Called("JSXElement > JSXElement")
  \/ Called("JSXFragment")
  \/ Called("map")
  \/ Called("from")

\* C23: called while the exempt flag is up, a scanning handler returns
\* with no report made and the flag and the seen-set as they were; and a
\* step that changes the flag is the exempt call's enter or exit handler.
C23_ExemptFrame ==
  [][/\ isWithinChildrenToArray /\ ScanCalled
          => /\ pc' = pc + 1
             /\ reports' = reports
             /\ isWithinChildrenToArray' = isWithinChildrenToArray
             /\ seen' = seen
     /\ isWithinChildrenToArray' # isWithinChildrenToArray
          => Called("childrenToArraySelector") \/ Called("childrenToArraySelector:exit")]_vars

\* Witness: under checkFragmentShorthand the fragment handler has just
\* returned from a fragment of an array, with the flag up and no report
C23_Witness ==
  /\ rule = "jsxKey" /\ phase = "traverse" /\ pc > 1
  /\ "JSXFragment" \in listeners /\ options.checkFragmentShorthand
  /\ queue[pc - 1].kind = "enter"
  /\ NodeAt(ast, queue[pc - 1].node).type = "JSXFragment"
  /\ NodeAt(ast, Front(queue[pc - 1].node)).type = "ArrayExpression"
  /\ isWithinChildrenToArray
  /\ reports = <<>>

\* the exempt calls entered and not yet left: their enter event has been
\* handled, their exit event has not
OpenExemptCalls ==
  {q \in AllPaths :
     /\ childrenToArraySelector(NodeAt(ast, q))
     /\ \E i \in 1..(pc - 1) : queue[i] = [kind |-> "enter", node |-> q]
     /\ \E j \in pc..Len(queue) : queue[j] = [kind |-> "exit", node |-> q]}

\* C24: in a run of jsxKey, while the exempt flag is up the traversal is
\* inside an exempt call; the flag is down before the traversal starts
\* and when it has ended.
C24_FlagMeansInsideExempt ==
  rule = "jsxKey" =>
    /\ isWithinChildrenToArray => phase = "traverse" /\ OpenExemptCalls # {}
    /\ phase = "traverse" /\ pc = 1 => ~isWithinChildrenToArray
    /\ phase = "done" => ~isWithinChildrenToArray

\* Witness: the flag is up inside an exempt call nested in another
C24_Witness ==
  /\ rule = "jsxKey" /\ isWithinChildrenToArray
  /\ Cardinality(OpenExemptCalls) = 2

-----------------------------------------------------------------------------
(* The array-literal site *)

\* C25: called on any array literal, under any configuration, the
\* array-literal handler returns with no report made and the exempt flag
\* and the seen-set as they were.
C25_ArrayHandlerInert ==
  [][Called("ArrayExpression")
       => /\ pc' = pc + 1
          /\ reports' = reports
          /\ isWithinChildrenToArray' = isWithinChildrenToArray
          /\ seen' = seen]_vars

\* Witness: under warnOnDuplicates the handler has just returned from an
\* array literal of two elements, one without a key, outside every exempt
\* call, and nothing is reported
C25_Witness ==
  /\ rule = "jsxKey" /\ phase = "traverse" /\ pc > 1
  /\ "ArrayExpression" \in listeners /\ options.warnOnDuplicates
  /\ queue[pc - 1].kind = "enter"
  /\ NodeAt(ast, queue[pc - 1].node) = ArrayExpression(<<Li, LiKey>>)
  /\ ~InsideExempt(queue[pc - 1].node)
  /\ reports = <<>>

-----------------------------------------------------------------------------
(* Where missingArrayKey is anchored *)

\* the node at p is a JSX element
IsElementAt(p) == p \in AllPaths /\ NodeAt(ast, p).type = "JSXElement"

-----------------------------------------------------------------------------
(* useMethodUsage: a call under a kind the walk does not pass through *)

\* going up from the call at p, an ancestor of a kind that is neither
\* passed through nor a function comes before any function
LeavesListFirst(p) ==
  \E q \in AllPaths :
     /\ IsProperPrefix(q, p)
     /\ NodeAt(ast, q).type \notin PassThroughTypes \cup FunctionTypes
     /\ \A r \in AllPaths :
           IsProperPrefix(q, r) /\ IsProperPrefix(r, p)
             => NodeAt(ast, r).type \in PassThroughTypes

\* C27: called on a use* call whose ancestors leave the pass-through list
\* before any function is reached, the handler returns having reported
\* useWrongFunction at the call, whatever function encloses it.
C27_OutsideListReported ==
  [][Called("use") /\ LeavesListFirst(Ev.node)
     => HandlerReturns(<<Report(Ev.node, "useWrongFunction")>>)]_vars

-----------------------------------------------------------------------------
(* One diagnostic per anchor *)

\* C28: in a run of either rule no two diagnostics are anchored at the
\* same node; so no node carries two diagnostics of jsxKey, and no use*
\* call two useWrongFunction.
C28_OneReportPerAnchor ==
  \A i \in 1..Len(reports) : \A j \in 1..Len(reports) :
     reports[i].node = reports[j].node => i = j

\* Witness: a finished run of jsxKey with three diagnostics
C28_Witness ==
  /\ rule = "jsxKey" /\ phase = "done"
  /\ Len(reports) = 3

-----------------------------------------------------------------------------
(* The return statements of a block *)

\* the returns reached from statement n at p through if and else, braced
\* or not, in source order
RECURSIVE ReachedFrom(_, _), ReachedInItems(_, _, _)
ReachedFrom(n, p) ==
  IF n.type = "ReturnStatement" THEN <<p>>
  ELSE IF n.type = "IfStatement"
       THEN ReachedFrom(Kid(n, 2), Append(p, 2)) \o ReachedFrom(Kid(n, 3), Append(p, 3))
       ELSE IF n.type = "BlockStatement" THEN ReachedInItems(n, p, 1)
            ELSE <<>>
ReachedInItems(n, p, i) ==
  IF i > Len(n.kids) THEN <<>>
  ELSE (IF n.kids[i].type \in {"ReturnStatement", "IfStatement"}
        THEN ReachedFrom(n.kids[i], Append(p, i))
        ELSE <<>>)
       \o ReachedInItems(n, p, i + 1)

\* C29: getReturnStatements, called on a function's block body, returns
\* the returns reached through the if/else chains of the block, unbraced
\* branches included, in source order, and no return of a nested function,
\* loop, switch or try.
C29_CollectsReachedReturns ==
  collected.called => collected.value = ReachedFrom(fnBody, <<>>)

====
